---- MODULE Spec2Model ----
(***************************************************************************)
(* Model of the minesweeper engine of mocoma_minesweeper_src.py:           *)
(* MinesweeperGrid (generation, cell access, state transitions, adjacency  *)
(* count, flood fill, terminal predicates) and MinesweeperGame (do_action, *)
(* play_until_end).                                                        *)
(*                                                                         *)
(* A grid is a record [width, height, cells]; cells is the Python list     *)
(* _cells, kept as a sequence (list index i is position i + 1).  An        *)
(* operation that can raise returns a record whose field exc names the     *)
(* exception ("none" when the call returns normally).                      *)
(***************************************************************************)
EXTENDS Integers, Sequences, FiniteSets

VARIABLES grid, pc, args, n_mines, last, act, io

vars == <<grid, pc, args, n_mines, last, act, io>>

(***************************************************************************)
(* Bounds of the model                                                     *)
(***************************************************************************)
MaxCells == 3
MaxExtra == 1
MaxUnder == 2
MaxForbidden == 1
MaxSide == 3
MaxFnCells == 9
MaxMarks == 2
MaxEmptySide == 5
MaxGameCells == 4

(***************************************************************************)
(* Cells and lists                                                         *)
(***************************************************************************)
STATES == {"HIDDEN", "FLAGGED", "SHOWN"}

IO_ACTIONS == {"QUIT", "SHOW", "FLAG", "NOTHING"}

Cell(has_mine, state) == [has_mine |-> has_mine, state |-> state]

Max(a, b) == IF a >= b THEN a ELSE b

Min(a, b) == IF a <= b THEN a ELSE b

\* range(a, b) of Python: a, a+1, ..., b-1
range(a, b) == a .. (b - 1)

\* lst[i] of Python: a negative index counts from the end, an index
\* outside -len..len-1 raises IndexError
list_index_ok(lst, i) == i >= -Len(lst) /\ i < Len(lst)

list_pos(lst, i) == IF i < 0 THEN Len(lst) + i + 1 ELSE i + 1

list_get(lst, i) ==
    IF list_index_ok(lst, i)
    THEN [exc |-> "none", val |-> lst[list_pos(lst, i)]]
    ELSE [exc |-> "IndexError", val |-> Cell(FALSE, "HIDDEN")]

list_set(lst, i, v) ==
    IF list_index_ok(lst, i)
    THEN [exc |-> "none", val |-> [lst EXCEPT ![list_pos(lst, i)] = v]]
    ELSE [exc |-> "IndexError", val |-> lst]

(***************************************************************************)
(* MinesweeperGrid                                                         *)
(***************************************************************************)
\* __init__: [Cell] * (width * height); a non-positive count gives []
NewGrid(width, height) ==
    [width |-> width, height |-> height,
     cells |-> [i \in 1 .. Max(0, width * height) |-> Cell(FALSE, "HIDDEN")]]

\* coords_are_valid without the lower bound on x
coords_are_valid_no_low_x(g, x, y) == x < g.width /\ y >= 0 /\ y < g.height

coords_are_valid(g, x, y) == x >= 0 /\ x < g.width /\ y >= 0 /\ y < g.height

get_cell(g, x, y) ==
    IF ~coords_are_valid(g, x, y)
    THEN [exc |-> "OutOfGridException", val |-> Cell(FALSE, "HIDDEN")]
    ELSE list_get(g.cells, y * g.width + x)

set_cell(g, x, y, cell) ==
    IF ~coords_are_valid(g, x, y)
    THEN [exc |-> "OutOfGridException", grid |-> g]
    ELSE LET r == list_set(g.cells, y * g.width + x, cell)
         IN  [exc |-> r.exc, grid |-> [g EXCEPT !.cells = r.val]]

put_mine(g, x, y) ==
    LET c == get_cell(g, x, y)
    IN  IF c.exc # "none" THEN [exc |-> c.exc, grid |-> g]
        ELSE set_cell(g, x, y, Cell(TRUE, c.val.state))

\* show_cell leaving a FLAGGED cell as it is
show_cell_unless_flagged(g, x, y) ==
    LET c == get_cell(g, x, y)
    IN  IF c.exc # "none" THEN [exc |-> c.exc, grid |-> g]
        ELSE IF c.val.state = "FLAGGED" THEN [exc |-> "none", grid |-> g]
        ELSE set_cell(g, x, y, Cell(c.val.has_mine, "SHOWN"))

show_cell(g, x, y) ==
    LET c == get_cell(g, x, y)
    IN  IF c.exc # "none" THEN [exc |-> c.exc, grid |-> g]
        ELSE set_cell(g, x, y, Cell(c.val.has_mine, "SHOWN"))

\* flag_cell storing a cell without mine
flag_cell_drops_mine(g, x, y) ==
    LET c == get_cell(g, x, y)
    IN  IF c.exc # "none" THEN [exc |-> c.exc, grid |-> g]
        ELSE set_cell(g, x, y, Cell(FALSE, "FLAGGED"))

flag_cell(g, x, y) ==
    LET c == get_cell(g, x, y)
    IN  IF c.exc # "none" THEN [exc |-> c.exc, grid |-> g]
        ELSE set_cell(g, x, y, Cell(c.val.has_mine, "FLAGGED"))

hide_cell(g, x, y) ==
    LET c == get_cell(g, x, y)
    IN  IF c.exc # "none" THEN [exc |-> c.exc, grid |-> g]
        ELSE set_cell(g, x, y, Cell(c.val.has_mine, "HIDDEN"))

\* show_all_mines: for x in range(width): for y in range(height); k counts
\* the iterations done, iteration k visits (k \div height, k % height)
RECURSIVE show_all_mines_from(_, _)
show_all_mines_from(g, k) ==
    IF g.width <= 0 \/ g.height <= 0 \/ k >= g.width * g.height
    THEN [exc |-> "none", grid |-> g]
    ELSE LET x == k \div g.height
             y == k % g.height
             c == get_cell(g, x, y)
         IN  IF c.exc # "none" THEN [exc |-> c.exc, grid |-> g]
             ELSE IF c.val.has_mine
                  THEN LET s == show_cell(g, x, y)
                       IN  IF s.exc # "none" THEN s
                           ELSE show_all_mines_from(s.grid, k + 1)
                  ELSE show_all_mines_from(g, k + 1)

show_all_mines(g) == show_all_mines_from(g, 0)

is_loss(g) ==
    \E i \in 1 .. Len(g.cells) :
        g.cells[i].has_mine /\ g.cells[i].state = "SHOWN"

\* is_win accepting a mine in any state but HIDDEN
is_win_unhidden(g) ==
    \A i \in 1 .. Len(g.cells) :
        \/ g.cells[i].has_mine /\ g.cells[i].state # "HIDDEN"
        \/ ~g.cells[i].has_mine /\ g.cells[i].state # "FLAGGED"

\* is_win asking every mine-free cell to be SHOWN
is_win_all_shown(g) ==
    \A i \in 1 .. Len(g.cells) :
        \/ g.cells[i].has_mine /\ g.cells[i].state = "FLAGGED"
        \/ ~g.cells[i].has_mine /\ g.cells[i].state = "SHOWN"

\* is_win looking at the mined cells only
is_win_mines_only(g) ==
    \A i \in 1 .. Len(g.cells) :
        g.cells[i].has_mine => g.cells[i].state = "FLAGGED"

is_win(g) ==
    \A i \in 1 .. Len(g.cells) :
        \/ g.cells[i].has_mine /\ g.cells[i].state = "FLAGGED"
        \/ ~g.cells[i].has_mine /\ g.cells[i].state # "FLAGGED"

\* ended looking at is_loss only
ended_loss_only(g) == is_loss(g)

ended(g) == is_loss(g) \/ is_win(g)

\* n_mines_around leaving the cell (x, y) out of the count
n_mines_around_skip_centre(g, x, y) ==
    IF ~coords_are_valid(g, x, y)
    THEN [exc |-> "OutOfGridException", val |-> 0]
    ELSE LET around == (range(Max(0, x - 1), Min(x + 2, g.width))
                        \X range(Max(0, y - 1), Min(y + 2, g.height)))
                       \ {<<x, y>>}
         IN  [exc |-> "none",
              val |-> Cardinality({c \in around :
                                     get_cell(g, c[1], c[2]).val.has_mine})]

\* n_mines_around with the ranges ending at x + 1 and y + 1
n_mines_around_short(g, x, y) ==
    IF ~coords_are_valid(g, x, y)
    THEN [exc |-> "OutOfGridException", val |-> 0]
    ELSE LET around == range(Max(0, x - 1), Min(x + 1, g.width))
                       \X range(Max(0, y - 1), Min(y + 1, g.height))
         IN  [exc |-> "none",
              val |-> Cardinality({c \in around :
                                     get_cell(g, c[1], c[2]).val.has_mine})]

\* n_mines_around: the count over range(max(0, x-1), min(x+2, width)) x
\* range(max(0, y-1), min(y+2, height)); the cell (x, y) is in both ranges.
\* (The ranges are clipped to the grid, so the get_cell of the loop body
\* does not raise.)
n_mines_around(g, x, y) ==
    IF ~coords_are_valid(g, x, y)
    THEN [exc |-> "OutOfGridException", val |-> 0]
    ELSE LET around == range(Max(0, x - 1), Min(x + 2, g.width))
                       \X range(Max(0, y - 1), Min(y + 2, g.height))
         IN  [exc |-> "none",
              val |-> Cardinality({c \in around :
                                     get_cell(g, c[1], c[2]).val.has_mine})]

\* coords_around with (x, y + 1) written twice and (x, y - 1) missing
coords_around_no_up(x, y) == <<<<x + 1, y>>, <<x - 1, y>>, <<x, y + 1>>, <<x, y + 1>>>>

coords_around(x, y) == <<<<x + 1, y>>, <<x - 1, y>>, <<x, y + 1>>, <<x, y - 1>>>>

\* the condition of the for loop's if, accepting every state but SHOWN
is_clearable_unshown(g, cx, cy) ==
    coords_are_valid(g, cx, cy) /\ get_cell(g, cx, cy).val.state # "SHOWN"

\* the condition of the for loop's if, accepting also a SHOWN cell that has a
\* mine around
is_clearable_numbered(g, cx, cy) ==
    /\ coords_are_valid(g, cx, cy)
    /\ \/ get_cell(g, cx, cy).val.state = "HIDDEN"
       \/ /\ get_cell(g, cx, cy).val.state = "SHOWN"
          /\ n_mines_around(g, cx, cy).val # 0

\* the condition under which clear_from recurses into the neighbour (cx, cy)
is_clearable(g, cx, cy) ==
    coords_are_valid(g, cx, cy) /\ get_cell(g, cx, cy).val.state = "HIDDEN"

\* clear_from: show the cell, and when it has no mine around recurse into
\* the neighbours of coords_around, in that order, that are valid and
\* HIDDEN at the moment the loop reaches them.  visits lists the
\* activations in call order, depth is the deepest nesting reached.
\* clear_visit is one iteration of the for loop: acc is the outcome so far,
\* c the neighbour.  The four iterations are a1 .. a4.
RECURSIVE clear_from(_, _, _)
RECURSIVE clear_visit(_, _)
clear_from(g, x, y) ==
    LET s == show_cell(g, x, y)
        n == n_mines_around(s.grid, x, y)
        cs == coords_around(x, y)
        a0 == [exc |-> "none", grid |-> s.grid, visits |-> <<<<x, y>>>>,
               depth |-> 1]
        a1 == clear_visit(a0, cs[1])
        a2 == clear_visit(a1, cs[2])
        a3 == clear_visit(a2, cs[3])
        a4 == clear_visit(a3, cs[4])
    IN  IF s.exc # "none"
        THEN [exc |-> s.exc, grid |-> g, visits |-> <<>>, depth |-> 1]
        ELSE IF n.exc # "none" THEN [a0 EXCEPT !.exc = n.exc]
        ELSE IF n.val # 0 THEN a0
        ELSE IF a1.exc # "none" THEN a1
        ELSE IF a2.exc # "none" THEN a2
        ELSE IF a3.exc # "none" THEN a3
        ELSE a4

\* the body of the for loop showing the neighbour without recursing into it
clear_visit_shallow(acc, c) ==
    IF ~is_clearable(acc.grid, c[1], c[2]) THEN acc
    ELSE [acc EXCEPT !.grid = show_cell(acc.grid, c[1], c[2]).grid,
                     !.visits = acc.visits \o <<c>>,
                     !.depth = Max(acc.depth, 2)]

clear_visit(acc, c) ==
    IF ~is_clearable(acc.grid, c[1], c[2]) THEN acc
    ELSE LET r == clear_from(acc.grid, c[1], c[2])
         IN  [exc |-> r.exc, grid |-> r.grid,
              visits |-> acc.visits \o r.visits,
              depth |-> Max(acc.depth, 1 + r.depth)]

(***************************************************************************)
(* State of the model                                                      *)
(*   grid     the MinesweeperGrid under construction or in use             *)
(*   pc       where the caller stands                                      *)
(*   args     the arguments of the gen_random call, NoArgs once in use     *)
(*   n_mines  gen_random's countdown n_mines                               *)
(*   last     the last call made on the grid and how it ended              *)
(*   act      the (action, coords) pair get_grid_input returned, NoAct     *)
(*            once do_action has consumed it                               *)
(*   io       what the io_controller has been asked to do                  *)
(***************************************************************************)
NoArgs == [width |-> 0, height |-> 0, n_mines |-> 0, forbidden |-> {}]

NoAct == [action |-> "NOTHING", x |-> 0, y |-> 0]

NoIO == [destroyed |-> FALSE, called |-> "none"]

Points(w, h) == {<<x, y>> : x \in range(0, w), y \in range(0, h)}

\* (x, y) lies in [0, width) x [0, height)
InGrid(g, x, y) == <<x, y>> \in Points(g.width, g.height)

Result(op, x, y, inrange, r) ==
    [op |-> op, x |-> x, y |-> y, inrange |-> inrange, exc |-> r.exc,
     val |-> r.val, visits |-> r.visits, depth |-> r.depth]

\* the record of a call in the specification Spec: whether its coordinates
\* were in the grid and the exception it ended with (op is "gen_random" or,
\* for every call on the generated grid, "call")
Brief(op, inrange, exc) ==
    Result(op, 0, 0, inrange, [exc |-> exc, val |-> 0, visits |-> <<>>, depth |-> 0])

MineCount(g) == Cardinality({i \in 1 .. Len(g.cells) : g.cells[i].has_mine})

AllHidden(g) == \A i \in 1 .. Len(g.cells) : g.cells[i].state = "HIDDEN"

(***************************************************************************)
(* gen_random(width, height, n_mines, forbidden_coords)                    *)
(***************************************************************************)
Configs ==
    UNION {UNION {{[width |-> w, height |-> h, n_mines |-> n, forbidden |-> f] :
                     n \in -1 .. (Max(0, w * h) + MaxExtra),
                     f \in {s \in SUBSET Points(w, h) : Cardinality(s) <= MaxForbidden}} :
                  h \in {k \in -1 .. MaxCells : w * k <= MaxCells}} :
           w \in -1 .. MaxCells}

\* the state after grid = cls(width, height), before the while loop
Init ==
    /\ args \in Configs
    /\ grid = NewGrid(args.width, args.height)
    /\ n_mines = args.n_mines
    /\ pc = "gen_loop"
    /\ last = Brief("gen_random", TRUE, "none")
    /\ act = NoAct
    /\ io = NoIO

\* the condition of the inner while loop: the drawn point is drawn again
redraw(g, forbidden_coords, x, y) ==
    <<x, y>> \in forbidden_coords /\ get_cell(g, x, y).val.has_mine

\* one iteration of `while n_mines`: points are drawn until one is not
\* drawn again, and that point receives the mine.  randint(0, width - 1)
\* needs width >= 1.  (When every point would be drawn again the inner loop
\* spins and this step never completes.)
GenDraw ==
    /\ pc = "gen_loop"
    /\ n_mines # 0
    /\ n_mines > -MaxUnder
    /\ args.width >= 1 /\ args.height >= 1
    /\ \E p \in Points(args.width, args.height) :
          /\ ~redraw(grid, args.forbidden, p[1], p[2])
          /\ grid' = put_mine(grid, p[1], p[2]).grid
    /\ n_mines' = n_mines - 1
    /\ UNCHANGED <<pc, args, last, act, io>>

\* randint(0, width - 1) with width - 1 < 0 raises ValueError
GenRaise ==
    /\ pc = "gen_loop"
    /\ n_mines # 0
    /\ (args.width < 1 \/ args.height < 1)
    /\ pc' = "gen_raised"
    /\ last' = Brief("gen_random", TRUE, "ValueError")
    /\ UNCHANGED <<grid, args, n_mines, act, io>>

GenReturn ==
    /\ pc = "gen_loop"
    /\ n_mines = 0
    /\ pc' = "generated"
    /\ last' = Brief("gen_random", TRUE, "none")
    /\ UNCHANGED <<grid, args, n_mines, act, io>>

(***************************************************************************)
(* Calls on a generated grid                                               *)
(***************************************************************************)
XS(g) == -1 .. Max(g.width, 0)

YS(g) == -1 .. Max(g.height, 0)

Cells == {Cell(m, s) : m \in BOOLEAN, s \in STATES}

\* a call, inrange telling whether its coordinates lie in the grid, whose
\* outcome is the member of the singleton outcome (bound once)
Called(inrange, outcome) ==
    /\ pc \in {"generated", "api"}
    /\ \E r \in outcome :
        /\ pc' = "api"
        /\ grid' = r.grid
        /\ last' = Brief("call", inrange, r.exc)
        /\ args' = NoArgs
        /\ n_mines' = 0
        /\ UNCHANGED <<act, io>>

CallGetCell(x, y) ==
    Called(InGrid(grid, x, y),
           {[exc |-> get_cell(grid, x, y).exc, grid |-> grid]})

CallSetCell(x, y, cell) ==
    Called(InGrid(grid, x, y), {set_cell(grid, x, y, cell)})

CallPutMine(x, y) == Called(InGrid(grid, x, y), {put_mine(grid, x, y)})

CallShowCell(x, y) == Called(InGrid(grid, x, y), {show_cell(grid, x, y)})

CallFlagCell(x, y) == Called(InGrid(grid, x, y), {flag_cell(grid, x, y)})

CallHideCell(x, y) == Called(InGrid(grid, x, y), {hide_cell(grid, x, y)})

CallNMinesAround(x, y) ==
    Called(InGrid(grid, x, y),
           {[exc |-> n_mines_around(grid, x, y).exc, grid |-> grid]})

CallClearFrom(x, y) ==
    Called(InGrid(grid, x, y),
           {[exc |-> r.exc, grid |-> r.grid] : r \in {clear_from(grid, x, y)}})

\* show_all_mines takes no coordinates
CallShowAllMines == Called(TRUE, {show_all_mines(grid)})

Next ==
    \/ GenDraw
    \/ GenRaise
    \/ GenReturn
    \/ \E x \in XS(grid), y \in YS(grid) : CallGetCell(x, y)
    \/ \E x \in XS(grid), y \in YS(grid), cell \in Cells : CallSetCell(x, y, cell)
    \/ \E x \in XS(grid), y \in YS(grid) : CallPutMine(x, y)
    \/ \E x \in XS(grid), y \in YS(grid) : CallShowCell(x, y)
    \/ \E x \in XS(grid), y \in YS(grid) : CallFlagCell(x, y)
    \/ \E x \in XS(grid), y \in YS(grid) : CallHideCell(x, y)
    \/ \E x \in XS(grid), y \in YS(grid) : CallNMinesAround(x, y)
    \/ \E x \in XS(grid), y \in YS(grid) : CallClearFrom(x, y)
    \/ CallShowAllMines

Spec == Init /\ [][Next]_vars

(***************************************************************************)
(* Single calls of n_mines_around and clear_from on drawn grids            *)
(*                                                                         *)
(* SpecFn starts from a grid the program can hold: sides of up to MaxSide, *)
(* up to MaxFnCells cells, MaxMarks marks in all, a mark being a mine      *)
(* (gen_random with distinct draws) or a cell made FLAGGED or SHOWN        *)
(* (flag_cell, show_cell); or a                                            *)
(* grid without mines, all HIDDEN, of up to MaxEmptySide x MaxEmptySide    *)
(* cells (gen_random(w, h, 0)).  One call is made on a cell of the grid    *)
(* and its outcome recorded in last.                                       *)
(***************************************************************************)
RECURSIVE SubsetsUpTo(_, _)
SubsetsUpTo(S, k) ==
    IF k <= 0 THEN {{}}
    ELSE LET P == SubsetsUpTo(S, k - 1)
         IN  P \cup {p \cup {e} : p \in P, e \in S}

\* the grid of width w and height h with mines on the points of mines, the
\* points of flagged FLAGGED, those of shown SHOWN and the others HIDDEN
MakeGrid(w, h, mines, flagged, shown) ==
    [width |-> w, height |-> h,
     cells |-> [i \in 1 .. w * h |->
                  LET p == <<(i - 1) % w, (i - 1) \div w>>
                  IN  Cell(p \in mines,
                           IF p \in flagged THEN "FLAGGED"
                           ELSE IF p \in shown THEN "SHOWN" ELSE "HIDDEN")]]

\* the ways to make up to k points FLAGGED or SHOWN
Visibilities(w, h, k) ==
    UNION {{<<f, nh \ f>> : f \in SUBSET nh} :
           nh \in SubsetsUpTo(Points(w, h), k)}

\* grid is a grid of width w and height h with up to MaxMarks marks
IsMarkedGrid(w, h) ==
    \E m \in SubsetsUpTo(Points(w, h), MaxMarks) :
        \E v \in Visibilities(w, h, MaxMarks - Cardinality(m)) :
            grid = MakeGrid(w, h, m, v[1], v[2])

InitFn ==
    /\ \/ \E w \in 1 .. MaxSide :
             \E h \in {k \in 1 .. MaxSide : w * k <= MaxFnCells} :
                IsMarkedGrid(w, h)
       \/ \E w \in 1 .. MaxEmptySide, h \in 1 .. MaxEmptySide :
             grid = MakeGrid(w, h, {}, {}, {})
    /\ pc = "fn"
    /\ args = NoArgs
    /\ n_mines = 0
    /\ last = Brief("none", TRUE, "none")
    /\ act = NoAct
    /\ io = NoIO

\* (the outcome r of the call is bound once, by \E over a singleton)
FnNMinesAround(x, y) ==
    /\ pc = "fn"
    /\ \E r \in {n_mines_around(grid, x, y)} :
        /\ pc' = "fn_done"
        /\ last' = Result("n_mines_around", x, y, InGrid(grid, x, y),
                          [exc |-> r.exc, val |-> r.val, visits |-> <<>>,
                           depth |-> 0])
        /\ UNCHANGED <<grid, args, n_mines, act, io>>

FnClearFrom(x, y) ==
    /\ pc = "fn"
    /\ \E r \in {clear_from(grid, x, y)} :
        /\ pc' = "fn_done"
        /\ grid' = r.grid
        /\ last' = Result("clear_from", x, y, InGrid(grid, x, y),
                          [exc |-> r.exc, val |-> 0, visits |-> r.visits,
                           depth |-> r.depth])
        /\ UNCHANGED <<args, n_mines, act, io>>

NextFn ==
    \/ \E p \in Points(grid.width, grid.height) : FnNMinesAround(p[1], p[2])
    \/ \E p \in Points(grid.width, grid.height) : FnClearFrom(p[1], p[2])

SpecFn == InitFn /\ [][NextFn]_vars

(***************************************************************************)
(* MinesweeperGame                                                         *)
(*                                                                         *)
(* SpecGame starts from MinesweeperGame(grid, io_controller) on a          *)
(* generated grid (any mine placement, all HIDDEN) and follows             *)
(* play_until_end.  pc is the loop position: "while" (the test of the      *)
(* loop), "show_grid", "get_grid_input", "do_action", then "returned", or  *)
(* "raised" when an exception leaves play_until_end.                       *)
(***************************************************************************)
\* do_action(action, coords) with coords = (x, y)
do_action(g, ioc, action, x, y) ==
    IF action = "SHOW"
    THEN LET r == clear_from(g, x, y)
         IN  [exc |-> r.exc, grid |-> r.grid, io |-> ioc]
    ELSE IF action = "FLAG"
         THEN LET r == flag_cell(g, x, y)
              IN  [exc |-> r.exc, grid |-> r.grid, io |-> ioc]
         ELSE IF action = "QUIT"
              THEN [exc |-> "none", grid |-> g,
                    io |-> [destroyed |-> TRUE, called |-> "destroy"]]
              ELSE [exc |-> "none", grid |-> g, io |-> ioc]

GeneratedGrids ==
    UNION {UNION {{MakeGrid(w, h, m, {}, {}) : m \in SUBSET Points(w, h)} :
                  h \in {k \in 1 .. MaxGameCells : w * k <= MaxGameCells}} :
           w \in 1 .. MaxGameCells}

InitGame ==
    /\ grid \in GeneratedGrids
    /\ pc = "while"
    /\ args = NoArgs
    /\ n_mines = 0
    /\ last = Brief("none", TRUE, "none")
    /\ act = NoAct
    /\ io = NoIO

\* while not self.grid.ended(): the test succeeds, the body is entered
LoopEnter ==
    /\ pc = "while"
    /\ ~ended(grid)
    /\ pc' = "show_grid"
    /\ UNCHANGED <<grid, args, n_mines, last, act, io>>

\* the test fails: play_until_end returns
LoopExit ==
    /\ pc = "while"
    /\ ended(grid)
    /\ pc' = "returned"
    /\ UNCHANGED <<grid, args, n_mines, last, act, io>>

ShowGrid ==
    /\ pc = "show_grid"
    /\ pc' = "get_grid_input"
    /\ io' = [io EXCEPT !.called = "show_grid"]
    /\ UNCHANGED <<grid, args, n_mines, last, act>>

\* get_grid_input returns (QUIT, False), (NOTHING, False), or SHOW or FLAG
\* with coordinates that may lie outside the grid
GetGridInput ==
    /\ pc = "get_grid_input"
    /\ pc' = "do_action"
    /\ io' = [io EXCEPT !.called = "get_grid_input"]
    /\ \/ \E a \in {"QUIT", "NOTHING"} : act' = [action |-> a, x |-> 0, y |-> 0]
       \/ \E a \in {"SHOW", "FLAG"}, x \in XS(grid), y \in YS(grid) :
             act' = [action |-> a, x |-> x, y |-> y]
    /\ UNCHANGED <<grid, args, n_mines, last>>

DoAction ==
    /\ pc = "do_action"
    /\ \E r \in {do_action(grid, io, act.action, act.x, act.y)} :
        /\ pc' = IF r.exc = "none" THEN "while" ELSE "raised"
        /\ grid' = r.grid
        /\ io' = r.io
        /\ last' = Brief("do_action", InGrid(grid, act.x, act.y), r.exc)
        /\ act' = NoAct
        /\ UNCHANGED <<args, n_mines>>

NextGame ==
    \/ LoopEnter
    \/ LoopExit
    \/ ShowGrid
    \/ GetGridInput
    \/ DoAction

SpecGame == InitGame /\ [][NextGame]_vars

(***************************************************************************)
(* MinesweeperGame played by turns                                         *)
(*                                                                         *)
(* SpecTurns starts from MinesweeperGame(grid, io_controller) on a         *)
(* generated grid; the caller calls do_action(action, coords) turn after   *)
(* turn, without play_until_end and so without its ended() test.  act      *)
(* keeps the arguments of the last call; an exception out of do_action     *)
(* ends the run (pc = "turn_raised").                                      *)
(***************************************************************************)
InitTurns ==
    /\ grid \in GeneratedGrids
    /\ pc = "turn"
    /\ args = NoArgs
    /\ n_mines = 0
    /\ last = Brief("none", TRUE, "none")
    /\ act = NoAct
    /\ io = NoIO

TurnDoAction(action, x, y) ==
    /\ pc = "turn"
    /\ \E r \in {do_action(grid, io, action, x, y)} :
        /\ pc' = IF r.exc = "none" THEN "turn" ELSE "turn_raised"
        /\ grid' = r.grid
        /\ io' = r.io
        /\ last' = Brief("do_action", InGrid(grid, x, y), r.exc)
        /\ act' = [action |-> action, x |-> x, y |-> y]
        /\ UNCHANGED <<args, n_mines>>

NextTurns ==
    \/ \E a \in {"QUIT", "NOTHING"} : TurnDoAction(a, 0, 0)
    \/ \E a \in {"SHOW", "FLAG"}, x \in XS(grid), y \in YS(grid) :
          TurnDoAction(a, x, y)

SpecTurns == InitTurns /\ [][NextTurns]_vars

(***************************************************************************)
(* The two grid classes, cell by cell                                      *)
(*                                                                         *)
(* Minesweeper_Grid of minesweeper.py keeps cells, namedtuples (has_bomb,  *)
(* state) with state "hidden", "shown" or "flagged", and reads and writes  *)
(* them without any test of the coordinates.                               *)
(*                                                                         *)
(* SpecIndex starts from a new grid of either class (pc = "grid" for       *)
(* MinesweeperGrid, "old_grid" for Minesweeper_Grid), of up to MaxIdxCells *)
(* cells; each step is set_cell(x, y, cell) followed by get_cell(x, y) on  *)
(* a coordinate of [0, width) x [0, height).  last keeps the call, the     *)
(* exception it ended with and the cell get_cell returned; an exception    *)
(* ends the run.                                                           *)
(***************************************************************************)
MaxIdxCells == 6

BombCell(has_bomb, state) == [has_bomb |-> has_bomb, state |-> state]

\* Minesweeper_Grid.__init__
Minesweeper_Grid(width, height) ==
    [width |-> width, height |-> height,
     cells |-> [i \in 1 .. Max(0, width * height) |-> BombCell(FALSE, "hidden")]]

\* Minesweeper_Grid.get_cell
Minesweeper_Grid_get_cell(g, x, y) == list_get(g.cells, y * g.height + x)

\* Minesweeper_Grid.set_cell
Minesweeper_Grid_set_cell(g, x, y, cell) ==
    LET r == list_set(g.cells, y * g.height + x, cell)
    IN  [exc |-> r.exc, grid |-> [g EXCEPT !.cells = r.val]]

IdxShapes ==
    {d \in (1 .. MaxIdxCells) \X (1 .. MaxIdxCells) : d[1] * d[2] <= MaxIdxCells}

SetGet(op, x, y, cell, s, got) ==
    [op |-> op, x |-> x, y |-> y, cell |-> cell,
     exc |-> IF s.exc # "none" THEN s.exc ELSE got.exc,
     got |-> IF s.exc # "none" THEN "none" ELSE got.val]

InitIndex ==
    /\ \E d \in IdxShapes :
          \/ grid = NewGrid(d[1], d[2]) /\ pc = "grid"
          \/ grid = Minesweeper_Grid(d[1], d[2]) /\ pc = "old_grid"
    /\ args = NoArgs
    /\ n_mines = 0
    /\ last = [op |-> "none"]
    /\ act = NoAct
    /\ io = NoIO

\* MinesweeperGrid: set_cell(x, y, cell); get_cell(x, y)
IndexSetCell(x, y, cell) ==
    /\ pc = "grid"
    /\ \E s \in {set_cell(grid, x, y, cell)} :
        /\ grid' = s.grid
        /\ last' = SetGet("set_cell", x, y, cell, s, get_cell(s.grid, x, y))
        /\ pc' = IF last'.exc = "none" THEN "grid" ELSE "raised"
    /\ UNCHANGED <<args, n_mines, act, io>>

\* Minesweeper_Grid: set_cell(x, y, cell); get_cell(x, y)
IndexOldSetCell(x, y, cell) ==
    /\ pc = "old_grid"
    /\ \E s \in {Minesweeper_Grid_set_cell(grid, x, y, cell)} :
        /\ grid' = s.grid
        /\ last' = SetGet("set_cell", x, y, cell, s,
                          Minesweeper_Grid_get_cell(s.grid, x, y))
        /\ pc' = IF last'.exc = "none" THEN "old_grid" ELSE "old_raised"
    /\ UNCHANGED <<args, n_mines, act, io>>

NextIndex ==
    \/ \E p \in Points(grid.width, grid.height),
          cell \in {Cell(TRUE, "HIDDEN"), Cell(FALSE, "SHOWN")} :
          IndexSetCell(p[1], p[2], cell)
    \/ \E p \in Points(grid.width, grid.height),
          cell \in {BombCell(TRUE, "hidden"), BombCell(FALSE, "shown")} :
          IndexOldSetCell(p[1], p[2], cell)

SpecIndex == InitIndex /\ [][NextIndex]_vars

(***************************************************************************)
(* Properties                                                              *)
(***************************************************************************)
ValidConfig(a) ==
    a.width > 0 /\ a.height > 0 /\ a.n_mines >= 0
    /\ a.n_mines <= a.width * a.height

\* the cell stored for the point p (row-major, stride width)
CellAt(g, p) == g.cells[p[2] * g.width + p[1] + 1]

AllShown(g) == \A i \in 1 .. Len(g.cells) : g.cells[i].state = "SHOWN"

\* the in-bounds neighbours of p among the eight surrounding points
Neighbours8(g, p) ==
    {q \in Points(g.width, g.height) :
        q # p /\ q[1] - p[1] \in -1 .. 1 /\ q[2] - p[2] \in -1 .. 1}

\* p and q are orthogonal neighbours
Adjacent4(p, q) ==
    \/ p[2] = q[2] /\ (p[1] = q[1] + 1 \/ q[1] = p[1] + 1)
    \/ p[1] = q[1] /\ (p[2] = q[2] + 1 \/ q[2] = p[2] + 1)

\* C1: gen_random with a valid configuration returns a grid with exactly
\* n_mines mines, width*height cells, all of them HIDDEN.
C1_GenPlacesExactlyNMines ==
    (pc = "generated" /\ ValidConfig(args)) =>
        /\ MineCount(grid) = args.n_mines
        /\ Len(grid.cells) = args.width * args.height
        /\ AllHidden(grid)

\* C2: gen_random with an invalid configuration never returns a grid; it
\* fails, and the failure is InvalidConfiguration.
C2_InvalidConfigRejected ==
    (pc \in {"generated", "gen_raised"} /\ ~ValidConfig(args)) =>
        (pc = "gen_raised" /\ last.exc = "InvalidConfiguration")

\* C3: with a non-empty exclusion set that leaves enough cells for the
\* mines, no excluded point has a mine in the returned grid.
C3_ForbiddenCoordsMineFree ==
    (/\ pc = "generated"
     /\ ValidConfig(args)
     /\ args.forbidden # {}
     /\ args.n_mines <= args.width * args.height - Cardinality(args.forbidden))
    => \A p \in args.forbidden : ~CellAt(grid, p).has_mine

AroundCalled ==
    pc = "fn_done" /\ last.op = "n_mines_around" /\ last.inrange

\* C4 as stated: n_mines_around(x, y) is the number of mined cells among the
\* in-bounds neighbours of (x, y), the cell (x, y) itself not counted.
C4_AroundExcludesCentre ==
    AroundCalled =>
        /\ last.exc = "none"
        /\ last.val = Cardinality({q \in Neighbours8(grid, <<last.x, last.y>>) :
                                      CellAt(grid, q).has_mine})

\* C4 amended: n_mines_around(x, y) is the number of mined cells in the 3x3
\* neighbourhood of (x, y) clipped to the grid, the cell (x, y) included.
C4_AroundIncludesCentre ==
    AroundCalled =>
        /\ last.exc = "none"
        /\ last.val = Cardinality({q \in Neighbours8(grid, <<last.x, last.y>>)
                                          \cup {<<last.x, last.y>>} :
                                      CellAt(grid, q).has_mine})

\* 3x3 grid, a single mine at (1,1): n_mines_around(1,1) returned 1
C4_Witness ==
    /\ AroundCalled
    /\ grid.width = 3 /\ grid.height = 3
    /\ MineCount(grid) = 1 /\ CellAt(grid, <<1, 1>>).has_mine
    /\ last.x = 1 /\ last.y = 1 /\ last.val = 1

\* C5: is_win() and is_loss() are never both true.
C5_WinLossExclusive == ~(is_win(grid) /\ is_loss(grid))

\* after some calls: at least one mine SHOWN, at least one mine FLAGGED, no
\* mine HIDDEN and no mine-free cell FLAGGED
C5_Witness ==
    /\ pc = "api"
    /\ is_loss(grid)
    /\ \E i \in 1 .. Len(grid.cells) :
          grid.cells[i].has_mine /\ grid.cells[i].state = "FLAGGED"
    /\ \A i \in 1 .. Len(grid.cells) :
          IF grid.cells[i].has_mine THEN grid.cells[i].state # "HIDDEN"
          ELSE grid.cells[i].state # "FLAGGED"

\* C6: a call of a coordinate operation with (x, y) outside the grid fails
\* with OutOfGridException and leaves the grid as it was.
C6_OutOfGridFailsUnchanged ==
    [][(pc' = "api" /\ ~last'.inrange) =>
          (last'.exc = "OutOfGridException" /\ grid' = grid)]_vars

\* an out-of-grid call has failed on a grid holding a mine and a non-hidden cell
C6_Witness ==
    /\ pc = "api"
    /\ ~last.inrange
    /\ last.exc = "OutOfGridException"
    /\ MineCount(grid) >= 1
    /\ ~AllHidden(grid)

\* R grown by the rule "every orthogonal neighbour, in H, of a member with
\* n_mines_around = 0 is a member" until nothing is added; F holds the
\* members of R whose neighbours have not been added yet
RECURSIVE Grow(_, _, _, _)
Grow(g, H, R, F) ==
    LET zero == {c \in F : n_mines_around(g, c[1], c[2]).val = 0}
        more == {q \in H : q \notin R /\ \E c \in zero : Adjacent4(c, q)}
    IN  IF more = {} THEN R
        ELSE Grow(g, H, {q \in H \cup R : q \in R \/ q \in more}, more)

\* the fill region of start in g: the least set containing start such that
\* every in-bounds orthogonal neighbour, HIDDEN in g, of a member with
\* n_mines_around = 0 is a member
FillRegion(g, start) ==
    Grow(g, {q \in Points(g.width, g.height) : CellAt(g, q).state = "HIDDEN"},
         {start}, {start})

FillCalled == pc = "fn_done" /\ last.op = "clear_from" /\ last.inrange

\* C7: clear_from(x, y) on a valid cell shows exactly the cells of the
\* 4-connected fill region of (x, y) and leaves the visibility of every
\* other cell as it was.
C7_ClearFromIsFloodFill ==
    [][FillCalled' =>
          /\ last'.exc = "none"
          /\ Len(grid'.cells) = Len(grid.cells)
          /\ \A R \in {FillRegion(grid, <<last'.x, last'.y>>)} :
                 \A p \in Points(grid.width, grid.height) :
                    IF p \in R
                    THEN CellAt(grid', p).state = "SHOWN"
                    ELSE CellAt(grid', p).state = CellAt(grid, p).state]_vars

\* a fill that spread over several cells, stopped at a numbered cell and
\* left a mine-free cell HIDDEN
C7_Witness ==
    /\ FillCalled
    /\ Len(last.visits) >= 3
    /\ \E p \in Points(grid.width, grid.height) :
          /\ CellAt(grid, p).state = "SHOWN"
          /\ ~CellAt(grid, p).has_mine
          /\ n_mines_around(grid, p[1], p[2]).val > 0
    /\ \E p \in Points(grid.width, grid.height) :
          CellAt(grid, p).state = "HIDDEN" /\ ~CellAt(grid, p).has_mine

\* C8: on a grid without mines and all HIDDEN, one clear_from on any valid
\* cell leaves every cell SHOWN.
C8_EmptyGridFullyRevealed ==
    [][(FillCalled' /\ MineCount(grid) = 0 /\ AllHidden(grid)) =>
          (last'.exc = "none" /\ AllShown(grid')
           /\ Len(grid'.cells) = grid.width * grid.height)]_vars

\* 5x5 grid, clear_from(2,2): 25 activations, every cell SHOWN
C8_Witness ==
    /\ FillCalled
    /\ grid.width = 5 /\ grid.height = 5
    /\ last.x = 2 /\ last.y = 2
    /\ Len(last.visits) = 25
    /\ MineCount(grid) = 0
    /\ AllShown(grid)

\* C9: clear_from(x, y) changes the visibility of no mined cell other than
\* (x, y), and makes is_loss true only when (x, y) has a mine.
C9_FillRevealsNoOtherMine ==
    [][FillCalled' =>
          /\ \A p \in Points(grid.width, grid.height) :
                (CellAt(grid, p).has_mine /\ p # <<last'.x, last'.y>>) =>
                    CellAt(grid', p) = CellAt(grid, p)
          /\ (~is_loss(grid) /\ is_loss(grid')) =>
                CellAt(grid, <<last'.x, last'.y>>).has_mine]_vars

\* a fill that spread on a grid with mines and left them HIDDEN
C9_Witness ==
    /\ FillCalled
    /\ Len(last.visits) >= 2
    /\ MineCount(grid) >= 2
    /\ \A p \in Points(grid.width, grid.height) :
          CellAt(grid, p).has_mine => CellAt(grid, p).state = "HIDDEN"

\* C10: once QUIT has been handled (destroy() invoked), play_until_end makes
\* no further call on the io_controller and is at the end of the loop.
C10_QuitEndsLoop ==
    io.destroyed => (io.called = "destroy" /\ pc \in {"while", "returned"})

\* C11: in play_until_end, a SHOW or FLAG action with coordinates outside
\* the grid leaves the grid unchanged, lets no exception leave
\* play_until_end, and the loop goes on to its next test.
C11_OutOfGridTurnRejected ==
    [][(/\ pc = "do_action"
        /\ act.action \in {"SHOW", "FLAG"}
        /\ ~InGrid(grid, act.x, act.y))
       => (grid' = grid /\ pc' = "while" /\ last'.exc = "none")]_vars

\* C12: when play_until_end has returned after an action that ended the
\* game, the last call made on the io_controller is print_end.
C12_PrintEndOnExit ==
    (pc = "returned" /\ last.op = "do_action") => io.called = "print_end"

\* do_action is about to run the action act.action on the cell (act.x, act.y)
\* of the grid
ActsOnCell(action) ==
    pc = "do_action" /\ act.action = action /\ InGrid(grid, act.x, act.y)

\* C13: flag_cell(x, y) on a cell that is SHOWN leaves the grid unchanged
\* (here through the FLAG action of do_action, which calls flag_cell).
C13_FlagShownIsNoOp ==
    [][(ActsOnCell("FLAG") /\ CellAt(grid, <<act.x, act.y>>).state = "SHOWN")
       => grid' = grid]_vars

\* C14: a SHOW action on a valid cell with a mine makes is_loss true and
\* is_win false; from then on the only step of play_until_end is the loop
\* test that returns, with no further call on the io_controller.
C14_ShowMineIsLoss ==
    [][/\ (ActsOnCell("SHOW") /\ CellAt(grid, <<act.x, act.y>>).has_mine)
          => (is_loss(grid') /\ ~is_win(grid') /\ pc' = "while")
       /\ is_loss(grid)
          => (pc = "while" /\ pc' = "returned" /\ io' = io /\ grid' = grid)]_vars

\* play_until_end has returned after the SHOW of a mine that was FLAGGED,
\* another mine still being FLAGGED
C14_Witness ==
    /\ pc = "returned"
    /\ last.op = "do_action"
    /\ is_loss(grid)
    /\ \E i \in 1 .. Len(grid.cells) :
          grid.cells[i].has_mine /\ grid.cells[i].state = "FLAGGED"
    /\ io.called = "get_grid_input"

\* C15: a generated grid without mines satisfies is_win at once, and
\* play_until_end on it returns without any call on the io_controller and
\* without any action (the grid stays all HIDDEN).
C15_NoMinesWinsAtOnce ==
    MineCount(grid) = 0 =>
        /\ is_win(grid)
        /\ AllHidden(grid)
        /\ pc \in {"while", "returned"}
        /\ io = NoIO
        /\ last.op = "none"

\* play_until_end has returned on the 1x1 grid without mines
C15_Witness ==
    /\ pc = "returned"
    /\ grid.width = 1 /\ grid.height = 1
    /\ MineCount(grid) = 0
    /\ AllHidden(grid)
    /\ io = NoIO

\* C16: is_win() is true exactly when the FLAGGED cells are the mined cells
\* (every mine FLAGGED, no mine-free cell FLAGGED).
C16_WinIffFlagsAreMines ==
    is_win(grid) <=>
        {i \in 1 .. Len(grid.cells) : grid.cells[i].state = "FLAGGED"}
            = {i \in 1 .. Len(grid.cells) : grid.cells[i].has_mine}

\* the mines, and only they, have been flagged; a mine-free cell is still
\* HIDDEN and is_win holds
C16_Witness ==
    /\ pc = "api"
    /\ MineCount(grid) >= 1
    /\ is_win(grid)
    /\ \E i \in 1 .. Len(grid.cells) :
          ~grid.cells[i].has_mine /\ grid.cells[i].state = "HIDDEN"

\* g and h have the same dimensions, the same number of cells and the same
\* mined cells
SameMines(g, h) ==
    /\ g.width = h.width /\ g.height = h.height
    /\ Len(g.cells) = Len(h.cells)
    /\ \A i \in 1 .. Len(g.cells) : g.cells[i].has_mine = h.cells[i].has_mine

\* C17: a call of show_cell, flag_cell, hide_cell, clear_from or
\* show_all_mines on a generated grid changes no has_mine field, nor the
\* dimensions, nor the number of cells: a step that changes any of them is
\* not a step of one of these calls.
C17_MinesFixedAfterGeneration ==
    [][\/ SameMines(grid, grid')
       \/ ~(\/ \E x \in XS(grid), y \in YS(grid) :
                 \/ CallShowCell(x, y)
                 \/ CallFlagCell(x, y)
                 \/ CallHideCell(x, y)
                 \/ CallClearFrom(x, y)
            \/ CallShowAllMines)]_vars

\* after some calls the grid holds a mine, a SHOWN cell and a FLAGGED cell
C17_Witness ==
    /\ pc = "api"
    /\ last.exc = "none"
    /\ MineCount(grid) >= 1
    /\ \E i, j \in 1 .. Len(grid.cells) :
          grid.cells[i].state = "SHOWN" /\ grid.cells[j].state = "FLAGGED"

\* C18: clear_from(x, y) on a valid cell returns; no cell is the target of
\* two activations, so the activations and the recursion depth number at
\* most width*height.
C18_ClearFromBounded ==
    FillCalled =>
        /\ last.exc = "none"
        /\ last.visits[1] = <<last.x, last.y>>
        /\ \A i, j \in 1 .. Len(last.visits) :
              last.visits[i] = last.visits[j] => i = j
        /\ Len(last.visits) <= grid.width * grid.height
        /\ last.depth <= Len(last.visits)

\* a fill of at least six activations nested six deep on a grid with a mine
C18_Witness ==
    /\ FillCalled
    /\ MineCount(grid) >= 1
    /\ Len(last.visits) >= 6
    /\ last.depth >= 6

\* the largest grid on which every order of the work list is followed
MaxWorkCells == 9

\* A work-list traversal holds the grid and the set pending of cells waiting
\* to be shown.  WorkStep(c) is the set of configurations one step can lead
\* to from c: some cell p of pending is taken out and shown, and when it has
\* no mine around, its neighbours that are valid and HIDDEN join pending.
WorkStep(c) ==
    {LET s == show_cell(c.grid, p[1], p[2]).grid
         cs == coords_around(p[1], p[2])
         more == IF n_mines_around(s, p[1], p[2]).val = 0
                 THEN {cs[i] : i \in {k \in 1 .. 4 :
                                         is_clearable(s, cs[k][1], cs[k][2])}}
                 ELSE {}
     IN  [grid |-> s, pending |-> (c.pending \ {p}) \cup more] :
     p \in c.pending}

\* the grids a work-list traversal can end with (pending empty), starting
\* from the configurations of todo, whatever cell is picked at each step
RECURSIVE WorkFinals(_, _)
WorkFinals(todo, finals) ==
    IF todo = {} THEN finals
    ELSE LET next == UNION {WorkStep(c) : c \in todo}
         IN  WorkFinals({c \in next : c.pending # {}},
                        finals \cup {c.grid : c \in {d \in next : d.pending = {}}})

ShownCells(g) ==
    {p \in Points(g.width, g.height) : CellAt(g, p).state = "SHOWN"}

\* C19: on a grid of up to MaxWorkCells cells, every work-list traversal
\* from (x, y), whatever the order in which pending cells are picked, ends
\* with the same set of SHOWN cells as clear_from(x, y).
C19_FillOrderIndependent ==
    [][(FillCalled' /\ Len(grid.cells) <= MaxWorkCells) =>
          \A F \in {WorkFinals({[grid |-> grid,
                                  pending |-> {<<last'.x, last'.y>>}]}, {})} :
              /\ F # {}
              /\ \A f \in F : ShownCells(f) = ShownCells(grid')]_vars

\* a fill over a 2x3 grid that went round a cycle of cells: at least five
\* activations, the work list having had a choice of cells to pick
C19_Witness ==
    /\ FillCalled
    /\ grid.width = 2 /\ grid.height = 3
    /\ Len(last.visits) >= 5
    /\ Cardinality(ShownCells(grid)) >= 5

\* a mine is SHOWN, or the FLAGGED cells are exactly the mined cells
Terminal(g) ==
    \/ \E i \in 1 .. Len(g.cells) :
          g.cells[i].has_mine /\ g.cells[i].state = "SHOWN"
    \/ \A i \in 1 .. Len(g.cells) :
          g.cells[i].has_mine <=> g.cells[i].state = "FLAGGED"

\* C20: every step of play_until_end is, in this order, the loop test (which
\* returns on a terminal grid), show_grid, get_grid_input, do_action; the
\* grid changes only in do_action, on a grid that is not terminal, and by
\* the one action asked for (SHOW -> clear_from, FLAG -> flag_cell,
\* NOTHING -> no change); nothing happens once play_until_end has returned.
C20_OneActionPerTurn ==
    [][/\ pc \in {"while", "show_grid", "get_grid_input", "do_action"}
       /\ grid' # grid => (pc = "do_action" /\ ~Terminal(grid))
       /\ pc = "while" =>
             pc' = (IF Terminal(grid) THEN "returned" ELSE "show_grid")
       /\ pc = "show_grid" =>
             (~Terminal(grid) /\ pc' = "get_grid_input"
              /\ io'.called = "show_grid")
       /\ pc = "get_grid_input" =>
             (~Terminal(grid) /\ io.called = "show_grid" /\ pc' = "do_action"
              /\ io'.called = "get_grid_input")
       /\ pc = "do_action" =>
             /\ ~Terminal(grid)
             /\ io.called = "get_grid_input"
             /\ pc' \in {"while", "raised"}
             /\ act.action = "SHOW" =>
                   grid' = clear_from(grid, act.x, act.y).grid
             /\ act.action = "FLAG" =>
                   grid' = flag_cell(grid, act.x, act.y).grid
             /\ act.action = "NOTHING" => grid' = grid]_vars

\* play_until_end has returned on a win reached by turns of both kinds: a
\* mine-free cell SHOWN and the mines FLAGGED
C20_Witness ==
    /\ pc = "returned"
    /\ last.op = "do_action"
    /\ is_win(grid)
    /\ MineCount(grid) >= 2
    /\ \E i \in 1 .. Len(grid.cells) : grid.cells[i].state = "SHOWN"

\* C21: a SHOW action (clear_from, hence show_cell) on a cell that is
\* FLAGGED leaves the whole grid unchanged.
C21_FlagBlocksReveal ==
    [][(ActsOnCell("SHOW") /\ CellAt(grid, <<act.x, act.y>>).state = "FLAGGED")
       => grid' = grid]_vars

\* C22: playing by turns through do_action, a SHOW or FLAG action at valid
\* coordinates on a grid where is_loss() holds leaves is_loss() true and
\* is_win() false.
C22_LossIsStable ==
    [][(/\ pc = "turn" /\ pc' = "turn"
        /\ is_loss(grid)
        /\ act'.action \in {"SHOW", "FLAG"}
        /\ InGrid(grid, act'.x, act'.y))
       => (is_loss(grid') /\ ~is_win(grid'))]_vars

\* C23: in both grid classes, set_cell(x, y, c) on a valid coordinate
\* raises nothing and writes c at index y*width + x of the cell list and
\* nowhere else, and get_cell(x, y) then returns c.
C23_IndexIsRowMajor ==
    [][(pc \in {"grid", "old_grid"}) =>
          /\ last'.exc = "none"
          /\ last'.got = last'.cell
          /\ grid'.cells =
                ([grid.cells EXCEPT ![last'.y * grid.width + last'.x + 1] =
                                       last'.cell])]_vars

====
